---- MODULE Spec2Model ----
(***************************************************************************)
(* A state-machine model of the 3D renderer core of the studio panel:      *)
(* Renderer (Renderer.ts), RenderableMarker and Picker                      *)
(* (renderables/markers/RenderableMarker.ts), the transform tree the        *)
(* Renderer creates, and the shared-state hook makeGlobalState.  Every      *)
(* handler is one atomic action (the program is single-threaded and every   *)
(* handler runs to completion); the steps a handler performs, in order, are *)
(* recorded in `log`, which holds the steps of the most recent top-level    *)
(* call.                                                                    *)
(***************************************************************************)
EXTENDS Integers, Sequences, FiniteSets, TLC

\* ------------------------------------------------------------------ bounds
MaxTime == 2
NumItems == 2
MaxDispose == 2
MaxId == 1
MaxObjects == 3
MaxDistance == 2
MaxValue == 2
MaxSaves == 2

\* ------------------------------------------------------------- value sets
\* `x | undefined` is modelled as a sequence of length 0 or 1.
Undefined == <<>>
Some(x) == <<x>>

Times == 1..MaxTime
\* coordinate frames a host may name as the fixed frame and the render frame
FixedFrames == {"map", "odom"}
RenderFrames == {"base_link", "sensor"}
Items == 1..NumItems
Topics == {"/a", "/b"}
Namespaces == {"ns"}
MarkerIds == 0..MaxId
Stamps == {1, 2}
Poses == {"pose"}
MarkerMessages == [ns : Namespaces, id : MarkerIds, stamp : Stamps, pose : Poses]

VARIABLES
    currentTime,      \* Renderer.currentTime : bigint | undefined
    fixedFrameId,     \* Renderer.fixedFrameId : string | undefined
    renderFrameId,    \* Renderer.renderFrameId : string | undefined
    log,              \* steps performed by the most recent top-level call
    lastOp,           \* name of the most recent top-level call
    lastArg,          \* its arguments
    scene,            \* drawable objects currently in Renderer.scene
    renderLists,      \* gl.renderLists.get(scene, 0): left by the last main render
    selectedObjects,  \* outlinePass.selectedObjects
    gl,               \* WebGLRenderer state: render target, clear color, clear alpha
    colorScheme,      \* Renderer.colorScheme
    cameraView,       \* camera.view: the active view offset, if any
    shouldPickObjectCB, \* Picker.shouldPickObjectCB
    gpu,              \* state of every GPU resource the renderer owns
    pickMaterials,    \* Picker.materialCache: the picking-material indices cached
    disposeCount,     \* number of Renderer.dispose() calls made
    listeners,        \* events with a listener on the Renderer's own emitter
    inputListeners,   \* events with a listener registered on Input
    renderables,      \* Renderer.renderables : Map<string, Object3D>
    objects,          \* every RenderableMarker constructed so far, by object identity
    camera,           \* Renderer.camera: position and quaternion
    temp,             \* tempSpherical, tempVec, tempEuler: module-level scratch objects
    transformTree,    \* Renderer.transformTree: the samples of each (parent, child) pair
    existingValue,    \* makeGlobalState: the shared value
    hooks,            \* per component using the hook: its props, state and effect
    flushing,         \* React is running the pending effects of a commit
    panel,            \* ConnectedPanel: its useState values and the savedDefaultConfig ref
    savedConfig       \* the config useConfigById returns for the panel, if any

timeVars == <<currentTime, fixedFrameId, renderFrameId>>
traceVars == <<log, lastOp, lastArg>>
sceneVars == <<scene, renderLists, selectedObjects>>
glVars == <<gl, colorScheme, cameraView, shouldPickObjectCB>>
gpuVars == <<gpu, pickMaterials>>
lifeVars == <<disposeCount, listeners, inputListeners>>
markerVars == <<renderables, objects>>
cameraVars == <<camera, temp>>
tfVars == <<transformTree>>
hookVars == <<existingValue, hooks, flushing>>
panelVars == <<panel, savedConfig>>
rendererVars ==
    <<timeVars, sceneVars, glVars, gpuVars, lifeVars, markerVars, cameraVars, tfVars>>
vars ==
    <<timeVars, traceVars, sceneVars, glVars, gpuVars, lifeVars, markerVars,
      cameraVars, tfVars, hookVars, panelVars>>

\* ------------------------------------------------------------ Map helpers
MapSet(m, k, v) == [x \in (DOMAIN m) \cup {k} |-> IF x = k THEN v ELSE m[x]]
MapDelete(m, k) == [x \in (DOMAIN m) \ {k} |-> m[x]]
EmptyMap == [x \in {} |-> 0]

\* ------------------------------------------------------------ log entries
\* A step of a handler: its name and the argument it was given, if any (the
\* time of a frame step, the object of a draw call, the listeners a dispose
\* step found attached).
Step(e, a) == [e |-> e, arg |-> a]

\* --------------------------------------------------- the renderer's state
\* The mutable state a handler reads and writes, as one record, so that a
\* handler is a function from state to state and handlers compose the way the
\* calls in the source nest.  `ret` holds the value the last call returned.
Cur ==
    [currentTime |-> currentTime, fixedFrameId |-> fixedFrameId,
     renderFrameId |-> renderFrameId, log |-> <<>>, scene |-> scene,
     renderLists |-> renderLists, selectedObjects |-> selectedObjects,
     gl |-> gl, colorScheme |-> colorScheme, cameraView |-> cameraView,
     shouldPickObjectCB |-> shouldPickObjectCB, gpu |-> gpu,
     pickMaterials |-> pickMaterials, listeners |-> listeners,
     inputListeners |-> inputListeners, renderables |-> renderables,
     objects |-> objects, camera |-> camera, temp |-> temp,
     transformTree |-> transformTree, ret |-> 0]

Commit(s, op, arg) ==
    /\ currentTime' = s.currentTime
    /\ fixedFrameId' = s.fixedFrameId
    /\ renderFrameId' = s.renderFrameId
    /\ log' = s.log
    /\ lastOp' = op
    /\ lastArg' = arg
    /\ scene' = s.scene
    /\ renderLists' = s.renderLists
    /\ selectedObjects' = s.selectedObjects
    /\ gl' = s.gl
    /\ colorScheme' = s.colorScheme
    /\ cameraView' = s.cameraView
    /\ shouldPickObjectCB' = s.shouldPickObjectCB
    /\ gpu' = s.gpu
    /\ pickMaterials' = s.pickMaterials
    /\ listeners' = s.listeners
    /\ inputListeners' = s.inputListeners
    /\ renderables' = s.renderables
    /\ objects' = s.objects
    /\ camera' = s.camera
    /\ temp' = s.temp
    /\ transformTree' = s.transformTree
    /\ UNCHANGED <<hookVars, panelVars>>

Do(s, e, a) == [s EXCEPT !.log = Append(@, Step(e, a))]

\* ------------------------------------------------------- GPU resources
\* Each resource is "none" (never allocated on the GPU), "live" or "released".
\* three.js allocates a render target or a material program when it is first
\* rendered with; X.dispose() frees a live resource and does nothing otherwise.
GpuHandles ==
    {"gl", "target", "composer.renderTarget2", "composer.passes",
     "outlinePass.targets", "picker.pickingTarget"}

GpuAllocate(g, hs) == [h \in DOMAIN g |-> IF h \in hs THEN "live" ELSE g[h]]
GpuDispose(g, hs) ==
    [h \in DOMAIN g |-> IF h \in hs /\ g[h] = "live" THEN "released" ELSE g[h]]

\* --------------------------------------------------------- scene objects
\* The drawable objects that families put in the scene.  Object i has
\* THREE.Object3D.id = i; the remaining attributes are those that
\* Picker.processItem and Renderer.clickHandler read.
ItemKind(i) == ((i - 1) % 5) + 1

ItemType(i) ==
    CASE ItemKind(i) = 2 -> "LineSegments"
      [] ItemKind(i) = 5 -> "Line2"
      [] OTHER -> "Mesh"

ItemIsMesh(i) == ItemType(i) \in {"Mesh", "Line2"}

ItemMaterialType(i) ==
    CASE ItemKind(i) = 2 -> "LineBasicMaterial"
      [] ItemKind(i) = 5 -> "LineMaterial"
      [] ItemKind(i) = 3 -> "MeshBasicMaterial"
      [] OTHER -> "MeshStandardMaterial"

ItemHasGeometry(i) == ItemKind(i) # 4

ItemSide(i) == IF ItemKind(i) = 3 THEN "DoubleSide" ELSE "FrontSide"

\* which of the three render lists three.js sorts the object into
ItemList(i) == IF ItemKind(i) = 3 THEN "transparent" ELSE "opaque"

\* name of the first ancestor with a non-empty name ("" when there is none)
ItemParentName(i) ==
    CASE ItemKind(i) \in {1, 2} -> "marker1"
      [] ItemKind(i) = 3 -> ""
      [] OTHER -> "marker4"

\* one object of each kind
KindItems == 1..5
\* every object a scene of the model can hold
Objects == Items \cup KindItems

\* --------------------------------------------------------------- Renderer
RenderAllocates(s) ==
    {"target", "composer.renderTarget2", "composer.passes"}
        \cup (IF s.selectedObjects # {} THEN {"outlinePass.targets"} ELSE {})

\* The objects in gl.renderLists after the composer's passes.  The RenderPass
\* projects the whole scene; the OutlinePass, when objects are selected,
\* renders the same scene again with everything but the selection hidden, so
\* that the lists then hold the selection only (the reason clickHandler empties
\* the selection and renders before it picks).
RenderedLists(s) ==
    IF s.selectedObjects = {} THEN s.scene ELSE s.scene \cap s.selectedObjects

\* EffectComposer.render(): the passes fill gl.renderLists and the render
\* target current before the call is current again after it.
composerRender(s) ==
    [Do(s, "composer.render", Undefined) EXCEPT
        !.renderLists = RenderedLists(s),
        !.gpu = GpuAllocate(s.gpu, RenderAllocates(s))]

\* frameHandler with the draw call moved ahead of markers.startFrame
frameHandler_DrawBeforeMarkers(s, t) ==
    LET s1 == Do(s, "startFrame", Some(t))
        s2 == [s1 EXCEPT !.fixedFrameId = Some("map"),
                         !.renderFrameId = Some("base_link")]
        s3 == Do(s2, "materialCache.update", Undefined)
        s4 == Do(s3, "frameAxes.startFrame", Some(t))
        s5 == Do(s4, "occupancyGrids.startFrame", Some(t))
        s6 == Do(s5, "pointClouds.startFrame", Some(t))
        s7 == Do(s6, "gl.clear", Undefined)
        s8 == composerRender(s7)
        s9 == Do(s8, "markers.startFrame", Some(t))
        s10 == Do(s9, "endFrame", Some(t))
    IN  Do(s10, "gl.info.reset", Undefined)

\* frameHandler that emits endFrame with the stored currentTime instead of its
\* argument
frameHandler_EndAtStoredTime(s, t) ==
    LET s1 == Do(s, "startFrame", Some(t))
        s2 == [s1 EXCEPT !.fixedFrameId = Some("map"),
                         !.renderFrameId = Some("base_link")]
        s3 == Do(s2, "materialCache.update", Undefined)
        s4 == Do(s3, "frameAxes.startFrame", Some(t))
        s5 == Do(s4, "occupancyGrids.startFrame", Some(t))
        s6 == Do(s5, "pointClouds.startFrame", Some(t))
        s7 == Do(s6, "markers.startFrame", Some(t))
        s8 == Do(s7, "gl.clear", Undefined)
        s9 == composerRender(s8)
        s10 == Do(s9, "endFrame", s.currentTime)
    IN  Do(s10, "gl.info.reset", Undefined)

frameHandler(s, t) ==
    LET s1 == Do(s, "startFrame", Some(t))
        s2 == [s1 EXCEPT !.fixedFrameId = Some("map"),
                         !.renderFrameId = Some("base_link")]
        s3 == Do(s2, "materialCache.update", Undefined)
        s4 == Do(s3, "frameAxes.startFrame", Some(t))
        s5 == Do(s4, "occupancyGrids.startFrame", Some(t))
        s6 == Do(s5, "pointClouds.startFrame", Some(t))
        s7 == Do(s6, "markers.startFrame", Some(t))
        s8 == Do(s7, "gl.clear", Undefined)
        s9 == composerRender(s8)
        s10 == Do(s9, "endFrame", Some(t))
    IN  Do(s10, "gl.info.reset", Undefined)

animationFrame(s) ==
    IF s.currentTime # Undefined THEN frameHandler(s, s.currentTime[1]) ELSE s

\* WebGLRenderTarget.setSize() frees the target's GPU storage when the size
\* changes; the next render allocates it again.
ResizedTargets == {"target", "composer.renderTarget2", "outlinePass.targets"}

\* resizeHandler without the trailing animationFrame()
resizeHandler_NoRender(s) ==
    LET s1 == Do(s, "gl.setSize", Undefined)
        s2 == Do(s1, "target.setSize", Undefined)
        s3 == Do(s2, "composer.setSize", Undefined)
    IN  [s3 EXCEPT !.gpu = GpuDispose(s3.gpu, ResizedTargets)]

resizeHandler(s) ==
    LET s1 == Do(s, "gl.setSize", Undefined)
        s2 == Do(s1, "target.setSize", Undefined)
        s3 == Do(s2, "composer.setSize", Undefined)
        s4 == [s3 EXCEPT !.gpu = GpuDispose(s3.gpu, ResizedTargets)]
    IN  animationFrame(s4)

setColorScheme(s, scheme) ==
    [s EXCEPT !.colorScheme = Some(scheme),
              !.gl = [@ EXCEPT !.clearColor =
                                  IF scheme = "dark" THEN "DARK_BACKDROP"
                                                     ELSE "LIGHT_BACKDROP",
                               !.clearAlpha = 1]]

\* ---------------------------------------------------------- TransformTree
\* TRANSFORM_STORAGE_TIME_NS = 60n * BigInt(1e9) nanoseconds, in whole seconds:
\* the timestamps of transform samples are whole seconds here
TRANSFORM_STORAGE_TIME_SEC == 60

\* the (parent, child) frame pairs transforms arrive for, their timestamps
\* and their values (a pose, or one with a NaN component)
TfPairs == {<<"map", "base_link">>, <<"base_link", "sensor">>}
TfStamps == {0, 1, 60, 61, 62, 122}
TfValues == {"pose", "NaN"}

SeqMax(q) == CHOOSE m \in {q[k].time : k \in 1..Len(q)} : \A k \in 1..Len(q) : q[k].time <= m

\* the samples of q with the sample inserted at its place in timestamp order
\* (a sample with the same timestamp is replaced)
InsertSample(q, sample) ==
    LET IsBefore(x) == x.time < sample.time
        IsAfter(x) == x.time > sample.time
    IN  SelectSeq(q, IsBefore) \o <<sample>> \o SelectSeq(q, IsAfter)

\* the samples of q no older than the newest sample minus the retention window
EvictBefore(q, newest, maxStorageTime) ==
    LET IsKept(x) == x.time >= newest - maxStorageTime
    IN  SelectSeq(q, IsKept)

\* addTransform that evicts, in every pair, the samples older than the sample
\* just added minus the window
TransformTreeAddTransform_EvictsAllPairs(tree, maxStorageTime, parent, child, time, value) ==
    IF value = "NaN" THEN tree
    ELSE LET pair == <<parent, child>>
             q == InsertSample(tree[pair], [time |-> time, value |-> value])
         IN  [p \in DOMAIN tree |->
                EvictBefore(IF p = pair THEN q ELSE tree[p], SeqMax(q), maxStorageTime)]

\* TransformTree.addTransform (transforms/TransformTree.ts), modelled from the
\* specification: it inserts the sample for the (parent, child) pair, ignores
\* one with a NaN component, and evicts the samples of that pair older than
\* the pair's newest timestamp minus the retention window
TransformTreeAddTransform(tree, maxStorageTime, parent, child, time, value) ==
    IF value = "NaN" THEN tree
    ELSE LET pair == <<parent, child>>
             q == InsertSample(tree[pair], [time |-> time, value |-> value])
         IN  [tree EXCEPT ![pair] = EvictBefore(q, SeqMax(q), maxStorageTime)]

\* renderer.transformTree.addTransform(...) on the tree the Renderer created
\* with TRANSFORM_STORAGE_TIME_NS
addTransform(s, parent, child, time, value) ==
    [s EXCEPT !.transformTree =
        TransformTreeAddTransform(@, TRANSFORM_STORAGE_TIME_SEC, parent, child, time, value)]

\* ------------------------------------------------- Renderer.setCameraState
\* Angles are whole degrees, multiples of 90, so that the sines and cosines of
\* the spherical conversion are exact integers.
Mod360(a) == (a + 720) % 360
Sin(a) == CASE Mod360(a) = 90 -> 1 [] Mod360(a) = 270 -> -1 [] OTHER -> 0
Cos(a) == CASE Mod360(a) = 0 -> 1 [] Mod360(a) = 180 -> -1 [] OTHER -> 0

\* the Worldview CameraState descriptors the host passes
CameraStates ==
    [distance : 1..MaxDistance, phi : {0, 90}, thetaOffset : {0, 90, 270},
     targetOffset : {<<0, 0, 0>>, <<1, 2, 0>>}]

\* the orientation camera.lookAt(0, 0, 0) leaves in the constructor
LookAtOrigin == [order |-> "lookAt", x |-> 0, y |-> 0, z |-> 0]

\* Vector3.setFromSpherical(sph), sph = <<radius, phi, theta>>: every
\* component of the vector is overwritten
SetFromSpherical(sph) ==
    LET sinPhiRadius == Sin(sph[2]) * sph[1]
    IN  <<sinPhiRadius * Sin(sph[3]), Cos(sph[2]) * sph[1], sinPhiRadius * Cos(sph[3])>>

\* Vector3.applyAxisAngle(UNIT_X, PI_2): a quarter turn about the x axis
ApplyAxisAngleX90(v) == <<v[1], -v[3], v[2]>>

VecAdd(v, w) == <<v[1] + w[1], v[2] + w[2], v[3] + w[3]>>

\* Quaternion.setFromEuler(e): the rotation of the Euler angles e, held as
\* those angles reduced to one turn
SetFromEuler(e) == [order |-> e[4], x |-> Mod360(e[1]), y |-> Mod360(e[2]), z |-> Mod360(e[3])]

\* setCameraState that moves the camera from where it is (position.add without
\* the setFromSpherical before it)
setCameraState_FromCurrentPosition(s, cameraState) ==
    LET tempSpherical == <<cameraState.distance, cameraState.phi, -cameraState.thetaOffset>>
        tempVec == cameraState.targetOffset
        tempEuler == <<cameraState.phi, 0, -cameraState.thetaOffset, "ZYX">>
    IN  [s EXCEPT !.temp = [spherical |-> tempSpherical, vec |-> tempVec,
                            euler |-> tempEuler],
                  !.camera = [position |-> VecAdd(s.camera.position, tempVec),
                              quaternion |-> SetFromEuler(tempEuler)]]

setCameraState(s, cameraState) ==
    LET tempSpherical == <<cameraState.distance, cameraState.phi, -cameraState.thetaOffset>>
        p1 == ApplyAxisAngleX90(SetFromSpherical(tempSpherical))
        tempVec == cameraState.targetOffset
        p2 == VecAdd(p1, tempVec)
        tempEuler == <<cameraState.phi, 0, -cameraState.thetaOffset, "ZYX">>
    IN  [s EXCEPT !.temp = [spherical |-> tempSpherical, vec |-> tempVec,
                            euler |-> tempEuler],
                  !.camera = [position |-> p2,
                              quaternion |-> SetFromEuler(tempEuler)]]

\* ----------------------------------------------------------------- Picker
\* a predicate is the set of objects it accepts
AlwaysPickObject == Objects
\* the predicates a caller passes to pick: accept all, or reject one object
Predicates == {AlwaysPickObject} \cup {Objects \ {i} : i \in Items}
\* accept all, or reject one of the objects the pick pass would draw
KindPredicates == {AlwaysPickObject} \cup {Objects \ {i} : i \in {1, 3}}
\* the pixel lies on the background, on every object, or on the objects that
\* are no meshes with geometry
KindCovers == {{}, KindItems, {2, 4, 5}}

\* 32-bit integer arithmetic of the identifier encoding
\* n << k on a byte n with 8 <= k <= 24: the result wraps to a signed 32-bit
\* integer, so a byte of 128 or more shifted by 24 comes out negative
ShiftLeft(n, k) ==
    LET lim == 2 ^ (31 - k)
    IN  IF n < lim THEN n * (2 ^ k) ELSE (n - 2 * lim) * (2 ^ k)
\* the bytes of the id in little-endian order
EncodeId_LittleEndian(objId) ==
    <<objId % 256, (objId \div 256) % 256, (objId \div 65536) % 256,
      (objId \div 16777216) % 256>>

EncodeId(objId) ==
    <<(objId \div 16777216) % 256, (objId \div 65536) % 256,
      (objId \div 256) % 256, objId % 256>>
DecodeId(b) == ShiftLeft(b[1], 24) + ShiftLeft(b[2], 16) + ShiftLeft(b[3], 8) + b[4]

\* the objectId uniform: each byte of the id divided by 255, as the fraction
\* <<numerator, denominator>>
ObjectIdUniform(objId) == [k \in 1..4 |-> <<EncodeId(objId)[k], 255>>]
\* a color channel in [0, 1] stored in an 8-bit render target: round(c * 255)
ToUnorm8(c) == (2 * c[1] * 255 + c[2]) \div (2 * c[2])
\* the RGBA bytes a fragment of the picking material leaves in the target
FragColorBytes(u) == [k \in 1..4 |-> ToUnorm8(u[k])]

\* the object ids the encoding is exercised with: every combination of these
\* bytes, from 0 to 2^31 - 1
HighBytes == {0, 1, 127}
LowBytes == {0, 1, 128, 255}
ObjectIds ==
    {((b1 * 256 + b2) * 256 + b3) * 256 + b4 :
        b1 \in HighBytes, b2 \in LowBytes, b3 \in LowBytes, b4 \in LowBytes}

\* a clear to transparent black, whatever clear color is set
ClearPixel_TransparentBlack(g) == <<0, 0, 0, 0>>

\* the RGBA bytes gl.clear() leaves in the current render target
ClearPixel(g) ==
    LET rgb == CASE g.clearColor = "0xffffff" -> <<255, 255, 255>>
                 [] g.clearColor = "LIGHT_BACKDROP" -> <<214, 214, 214>>
                 [] g.clearColor = "DARK_BACKDROP" -> <<2, 2, 2>>
                 [] OTHER -> <<0, 0, 0>>
    IN  <<rgb[1], rgb[2], rgb[3], g.clearAlpha * 255>>

\* index of the picking material for an object's material/geometry combination
MaterialIndex(i) ==
    (IF ItemSide(i) = "FrontSide" THEN 2 ELSE 0)
        + (IF ItemSide(i) = "DoubleSide" THEN 4 ELSE 0)

\* the skip conditions without the LineMaterial case
ShouldSkip_DrawsLineMaterial(s, i) ==
    \/ ~ItemHasGeometry(i)
    \/ ItemMaterialType(i) = "LineBasicMaterial"
    \/ i \notin s.shouldPickObjectCB

ShouldSkip(s, i) ==
    \/ ~ItemHasGeometry(i)
    \/ ItemMaterialType(i) = "LineBasicMaterial"
    \/ ItemMaterialType(i) = "LineMaterial"
    \/ i \notin s.shouldPickObjectCB

processItem(s, i) ==
    IF ShouldSkip(s, i) THEN s
    ELSE [Do(s, "renderBufferDirect", Some(i)) EXCEPT
            !.pickMaterials = @ \cup {MaterialIndex(i)}]

RECURSIVE ProcessList(_, _)
ProcessList(s, items) ==
    IF items = {} THEN s
    ELSE LET i == CHOOSE x \in items : \A y \in items : x <= y
         IN  ProcessList(processItem(s, i), items \ {i})

\* the lists of a fresh traversal of the scene instead of the stored ones
RenderListOf_Retraversed(s, list) == {i \in s.scene : ItemList(i) = list}

RenderListOf(s, list) == {i \in s.renderLists : ItemList(i) = list}

handleAfterRender(s) ==
    LET s1 == ProcessList(s, RenderListOf(s, "opaque"))
        s2 == ProcessList(s1, RenderListOf(s1, "transmissive"))
    IN  ProcessList(s2, RenderListOf(s2, "transparent"))

DrawnItems(l) == {l[k].arg[1] : k \in {j \in 1..Len(l) : l[j].e = "renderBufferDirect"}}

\* The pixel read back: of the objects drawn whose surface covers the pixel
\* the nearest one wins the depth test (nearer objects have smaller ids here);
\* where none covers it the clear value stays.
ReadPixel(s, g, cover) ==
    LET hit == DrawnItems(s.log) \cap cover
    IN  IF hit = {} THEN ClearPixel(g)
        ELSE FragColorBytes(ObjectIdUniform(CHOOSE x \in hit : \A y \in hit : x <= y))

\* restoring the clear color without passing the saved alpha: setClearColor's
\* alpha parameter defaults to 1
RestoreGl_DefaultAlpha(g, currRenderTarget, currClearColor, currAlpha) ==
    [g EXCEPT !.renderTarget = currRenderTarget,
              !.clearColor = currClearColor,
              !.clearAlpha = 1]

\* restore the WebGL renderer's state at the end of pick
RestoreGl(g, currRenderTarget, currClearColor, currAlpha) ==
    [g EXCEPT !.renderTarget = currRenderTarget,
              !.clearColor = currClearColor,
              !.clearAlpha = currAlpha]

pick(s, cover, shouldPickObject) ==
    LET s1 == [s EXCEPT !.shouldPickObjectCB = shouldPickObject,
                        !.cameraView = Some("pixel")]
        currRenderTarget == s1.gl.renderTarget
        currAlpha == s1.gl.clearAlpha
        currClearColor == s1.gl.clearColor
        pickGl == [renderTarget |-> "pickingTarget", clearColor |-> "0xffffff",
                   clearAlpha |-> 1]
        s2 == [Do(s1, "pick.clear", Undefined) EXCEPT
                 !.gl = pickGl,
                 !.gpu = GpuAllocate(s1.gpu, {"picker.pickingTarget"})]
        s3 == handleAfterRender(Do(s2, "pick.render", Undefined))
        pixelBuffer == ReadPixel(s3, s3.gl, cover)
        s4 == Do(s3, "readRenderTargetPixels", Some(pixelBuffer))
        val == DecodeId(pixelBuffer)
    IN  [Do(s4, "pick.return", Some(val)) EXCEPT
            !.gl = RestoreGl(@, currRenderTarget, currClearColor, currAlpha),
            !.cameraView = Undefined,
            !.ret = val]

\* the identifier's path through one pick whose pixel is covered by an object
\* with id objId: processItem writes the id to the uniform, the draw stores it
\* in the 1x1 target, pick reads the pixel back and decodes it
pickObjectId(s, objId) ==
    LET uniform == ObjectIdUniform(objId)
        s1 == Do(s, "uniforms.objectId", Some(uniform))
        pixelBuffer == FragColorBytes(uniform)
        s2 == Do(s1, "readRenderTargetPixels", Some(pixelBuffer))
        val == DecodeId(pixelBuffer)
    IN  [Do(s2, "pick.return", Some(val)) EXCEPT !.ret = val]

pickerDispose(s) ==
    [s EXCEPT !.pickMaterials = {},
              !.gpu = GpuDispose(@, {"picker.pickingTarget"})]

\* ------------------------------------------------- Renderer.clickHandler
SelectedMeshes(s, name) ==
    {c \in s.scene : /\ ItemParentName(c) = name
                     /\ ItemIsMesh(c)
                     /\ ItemType(c) \notin {"Line2", "LineSegments"}}

clickHandler(s, cover) ==
    LET s1 == animationFrame([s EXCEPT !.selectedObjects = {}])
        s2 == pick(s1, cover, AlwaysPickObject)
        objectId == s2.ret
    IN  IF objectId < 0 THEN s2
        ELSE IF objectId \notin s2.scene \/ ItemParentName(objectId) = "" THEN s2
        ELSE animationFrame(
                [s2 EXCEPT !.selectedObjects =
                              SelectedMeshes(s2, ItemParentName(objectId))])

\* ------------------------------------------------------- RenderableMarker
\* getMarkerId (markers/markerId.ts), modelled from the specification: the
\* (topic, namespace, id) triple, which it calls a unique key.
getMarkerId(topic, ns, id) == <<topic, ns, id>>

\* rosTimeToNanoSec (ros.ts), modelled from the specification: a ROS time of
\* whole seconds in nanoseconds.
rosTimeToNanoSec(stamp) == stamp * 1000000000

\* a name that leaves the marker id out of the key
RenderableMarkerName_IgnoresId(topic, marker) == getMarkerId(topic, marker.ns, 0)

RenderableMarkerName(topic, marker) == getMarkerId(topic, marker.ns, marker.id)

\* constructor(topic, marker, renderer): the new object's identity is its
\* position in `objects`.
RenderableMarkerNew(s, topic, marker) ==
    LET name == RenderableMarkerName(topic, marker)
        obj == [name |-> name, topic |-> topic, marker |-> marker,
                pose |-> marker.pose, srcTime |-> rosTimeToNanoSec(marker.stamp)]
    IN  [s EXCEPT !.objects = Append(@, obj),
                  !.renderables = MapSet(@, name, Len(s.objects) + 1)]

RenderableMarkerUpdate(s, o, marker) ==
    [s EXCEPT !.objects[o].marker = marker,
              !.objects[o].srcTime = rosTimeToNanoSec(marker.stamp),
              !.objects[o].pose = marker.pose]

RenderableMarkerDispose(s, o) ==
    [s EXCEPT !.renderables = MapDelete(@, s.objects[o].name)]

\* Markers.addMarkerMessage (renderables/Markers.ts), modelled from the
\* specification: the family creates or updates the renderable registered
\* under the message's key.
MarkersAddMarkerMessage(s, topic, marker) ==
    LET name == getMarkerId(topic, marker.ns, marker.id)
    IN  IF name \in DOMAIN s.renderables
        THEN RenderableMarkerUpdate(s, s.renderables[name], marker)
        ELSE RenderableMarkerNew(s, topic, marker)

addMarkerMessage(s, topic, marker) ==
    MarkersAddMarkerMessage(Do(s, "markers.addMarkerMessage", Undefined), topic, marker)

\* Markers.dispose (renderables/Markers.ts), modelled from the specification:
\* it releases every renderable the family owns
RECURSIVE DisposeAll(_, _)
DisposeAll(s, os) ==
    IF os = {} THEN s
    ELSE LET o == CHOOSE x \in os : TRUE
         IN  DisposeAll(RenderableMarkerDispose(s, o), os \ {o})

MarkersDispose(s) ==
    DisposeAll(s, {s.renderables[n] : n \in DOMAIN s.renderables})

\* ------------------------------------------------------ Renderer.dispose
\* Input.dispose (Input.ts), modelled from the specification: it removes the
\* listeners registered on Input.
InputDispose(ls) == {}

removeAllListeners(s) == [s EXCEPT !.listeners = {}]

\* dispose() without the input.dispose() call
disposeInput_Skipped(s) == s

disposeInput(s) == [s EXCEPT !.inputListeners = InputDispose(@)]

disposeTargets(s) == [s EXCEPT !.gpu = GpuDispose(GpuDispose(@, {"target"}), {"gl"})]

dispose(s) ==
    LET s1 == removeAllListeners(Do(s, "removeAllListeners", Some(s.listeners)))
        s2 == pickerDispose(Do(s1, "picker.dispose", Undefined))
        s3 == disposeInput(Do(s2, "input.dispose", Some(s2.inputListeners)))
        s4 == Do(s3, "frameAxes.dispose", Undefined)
        s5 == Do(s4, "occupancyGrids.dispose", Undefined)
        s6 == Do(s5, "pointClouds.dispose", Undefined)
        s7 == MarkersDispose(Do(s6, "markers.dispose", Undefined))
        s8 == Do(s7, "target.dispose", Undefined)
    IN  disposeTargets(Do(s8, "gl.dispose", Undefined))

\* ------------------------------------------------------- makeGlobalState
\* The components that use one hook made by makeGlobalState, and the values
\* they set (`T | undefined`).
Components == {"A", "B"}
Values == {Undefined} \cup {Some(v) : v \in 1..MaxValue}

\* A component's use of the hook: whether it is mounted, the `enabled` option
\* of its latest render, its localValue state, whether its setLocalValue is a
\* listener of the emitter, and the effect in place: "on" (ran with enabled,
\* has a cleanup), "off" (ran with enabled false, no cleanup) or "none".
NoComponent ==
    [mounted |-> FALSE, enabled |-> FALSE, localValue |-> Undefined,
     listening |-> FALSE, effect |-> "none"]

\* the state shared by the hook's closures, as one record
CurHook == [existingValue |-> existingValue, hooks |-> hooks]

\* emitter.emit("change", v): every listener's setLocalValue(v) is called; on
\* an unmounted component that sets nothing
emitChange(g, v) ==
    [g EXCEPT !.hooks = [c \in DOMAIN g.hooks |->
        IF g.hooks[c].listening /\ g.hooks[c].mounted
        THEN [g.hooks[c] EXCEPT !.localValue = v] ELSE g.hooks[c]]]

setValue(g, newValue) ==
    IF g.existingValue # newValue
    THEN emitChange([g EXCEPT !.existingValue = newValue], newValue)
    ELSE g

\* a body whose useState starts from the shared value whatever `enabled` is
useGlobalState_InitialAlwaysShared(g, c, enabled) ==
    IF ~g.hooks[c].mounted
    THEN [g EXCEPT !.hooks[c] =
            [mounted |-> TRUE, enabled |-> enabled, localValue |-> g.existingValue,
             listening |-> FALSE, effect |-> "none"]]
    ELSE [g EXCEPT !.hooks[c].enabled = enabled]

\* the function component's body: useState takes its initial value on the
\* first render only
useGlobalState(g, c, enabled) ==
    IF ~g.hooks[c].mounted
    THEN [g EXCEPT !.hooks[c] =
            [mounted |-> TRUE, enabled |-> enabled,
             localValue |-> IF enabled THEN g.existingValue ELSE Undefined,
             listening |-> FALSE, effect |-> "none"]]
    ELSE [g EXCEPT !.hooks[c].enabled = enabled]

\* the effect's body
effectCreate(g, c) ==
    IF ~g.hooks[c].enabled THEN [g EXCEPT !.hooks[c].effect = "off"]
    ELSE [g EXCEPT !.hooks[c].listening = TRUE, !.hooks[c].effect = "on"]

\* a cleanup that only removes the listener and leaves the shared value
effectCleanup_KeepsValue(g, c) ==
    [g EXCEPT !.hooks[c] =
        IF g.hooks[c].mounted
        THEN [g.hooks[c] EXCEPT !.listening = FALSE, !.effect = "none"]
        ELSE NoComponent]

\* the cleanup the effect returned when it ran with enabled
effectCleanup(g, c) ==
    LET g1 == setValue(g, Undefined)
    IN  [g1 EXCEPT !.hooks[c] =
            IF g1.hooks[c].mounted
            THEN [g1.hooks[c] EXCEPT !.listening = FALSE, !.effect = "none"]
            ELSE NoComponent]

\* React removes the component; the cleanup of its effect, if it has one, is
\* left to run with the commit's effects
unmount(g, c) ==
    [g EXCEPT !.hooks[c] =
        IF g.hooks[c].effect = "on"
        THEN [mounted |-> FALSE, enabled |-> FALSE, localValue |-> Undefined,
              listening |-> g.hooks[c].listening, effect |-> "on"]
        ELSE NoComponent]

\* React's effect bookkeeping: the effect's dependencies are [enabled,
\* setValue], so the effect is torn down when the component is unmounted or
\* `enabled` has changed, and run when none is in place for the current value
NeedsCleanup(h, c) == h[c].effect = "on" /\ (~h[c].mounted \/ ~h[c].enabled)
NeedsEffect(h, c) ==
    /\ h[c].mounted
    /\ ~NeedsCleanup(h, c)
    /\ h[c].effect # (IF h[c].enabled THEN "on" ELSE "off")
PendingEffects(h) == {c \in DOMAIN h : NeedsCleanup(h, c) \/ NeedsEffect(h, c)}

\* ------------------------------------------------- Panel (ConnectedPanel)
\* The configs a layout can hold for the panel, and the keys and mouse
\* modifiers its handlers look at ("Backquote" and "Tilde" stand for the
\* quick-actions keys, the backquote and the tilde).
Configs == {Undefined, Some("defaultConfig"), Some("userConfig")}
KeyDownKeys == {"Backquote", "Tilde", "Shift", "Escape", "Meta", "a"}
KeyUpKeys == {"Backquote", "Tilde", "Shift", "Meta"}

\* The state of one mounted instance: the five useState values, the
\* savedDefaultConfig ref, and the number of saveConfig(defaultConfig) calls
\* the instance has made.  NoPanel is also what a fresh instance starts from.
NoPanel ==
    [mounted |-> FALSE, quickActionsKeyPressed |-> FALSE, shiftKeyPressed |-> FALSE,
     cmdKeyPressed |-> FALSE, fullScreen |-> FALSE, fullScreenLocked |-> FALSE,
     savedDefaultConfig |-> FALSE, defaultSaves |-> 0]

\* A handler is a closure of the render it was created in: it reads the state
\* values of that render (r) and its setState calls write the pending state
\* (p), which the next render shows.

\* a layout effect without the savedDefaultConfig guard
layoutEffect_NoRef(p, config) ==
    IF config = Undefined
    THEN [p EXCEPT !.savedDefaultConfig = TRUE,
                   !.defaultSaves = IF @ < MaxSaves THEN @ + 1 ELSE @]
    ELSE p

\* the useLayoutEffect body; `config` is the savedConfig of the render
layoutEffect(p, config) ==
    IF config = Undefined /\ ~p.savedDefaultConfig
    THEN [p EXCEPT !.savedDefaultConfig = TRUE,
                   !.defaultSaves = IF @ < MaxSaves THEN @ + 1 ELSE @]
    ELSE p

onOverlayClick(r, p) ==
    IF ~r.fullScreen /\ r.quickActionsKeyPressed
    THEN IF r.shiftKeyPressed
         THEN [p EXCEPT !.fullScreen = TRUE, !.fullScreenLocked = TRUE]
         ELSE [p EXCEPT !.fullScreen = TRUE]
    ELSE p

onMouseMove(r, p, metaKey) ==
    IF metaKey # r.cmdKeyPressed THEN [p EXCEPT !.cmdKeyPressed = metaKey] ELSE p

enterFullscreen(p) == [p EXCEPT !.fullScreen = TRUE, !.fullScreenLocked = TRUE]

\* an exit that leaves the lock in place
exitFullScreen_KeepsLock(p) == [p EXCEPT !.fullScreen = FALSE]

exitFullScreen(p) == [p EXCEPT !.fullScreen = FALSE, !.fullScreenLocked = FALSE]

onReleaseQuickActionsKey(r, p) ==
    LET p1 == [p EXCEPT !.quickActionsKeyPressed = FALSE]
    IN  IF r.fullScreen /\ ~r.fullScreenLocked THEN exitFullScreen(p1) ELSE p1

keyUpHandlers(r, p, key) ==
    CASE key \in {"Backquote", "Tilde"} -> onReleaseQuickActionsKey(r, p)
      [] key = "Shift" -> [p EXCEPT !.shiftKeyPressed = FALSE]
      [] key = "Meta" -> [p EXCEPT !.cmdKeyPressed = FALSE]

keyDownHandlers(r, p, key) ==
    CASE key \in {"Backquote", "Tilde"} -> [p EXCEPT !.quickActionsKeyPressed = TRUE]
      [] key = "Shift" -> [p EXCEPT !.shiftKeyPressed = TRUE]
      [] key = "Escape" -> exitFullScreen(p)
      [] key = "Meta" -> [p EXCEPT !.cmdKeyPressed = TRUE]
      [] key = "a" -> p

\* a blur handler that only releases the quick-actions key
onBlurDocument_ReleaseOnly(r, p) == onReleaseQuickActionsKey(r, p)

onBlurDocument(r, p) ==
    LET p1 == exitFullScreen(p)
        p2 == [p1 EXCEPT !.cmdKeyPressed = FALSE]
        p3 == [p2 EXCEPT !.shiftKeyPressed = FALSE]
    IN  onReleaseQuickActionsKey(r, p3)

\* ------------------------------------------------------------------ Init
\* The state the constructor leaves: the WebGL context exists, nothing has
\* been rendered (the constructor's animationFrame() finds no currentTime),
\* and Input carries the two listeners the constructor registered.
Init ==
    /\ currentTime = Undefined
    /\ fixedFrameId = Undefined
    /\ renderFrameId = Undefined
    /\ log = <<>>
    /\ lastOp = "constructor"
    /\ lastArg = <<>>
    /\ scene = {}
    /\ renderLists = {}
    /\ selectedObjects = {}
    /\ gl = [renderTarget |-> "null", clearColor |-> "0x000000", clearAlpha |-> 0]
    /\ colorScheme = Undefined
    /\ cameraView = Undefined
    /\ shouldPickObjectCB = AlwaysPickObject
    /\ gpu = [h \in GpuHandles |-> IF h = "gl" THEN "live" ELSE "none"]
    /\ pickMaterials = {}
    /\ disposeCount = 0
    /\ listeners = {}
    /\ inputListeners = {"resize", "click"}
    /\ renderables = EmptyMap
    /\ objects = <<>>
    /\ camera = [position |-> <<1, -3, 1>>, quaternion |-> LookAtOrigin]
    /\ temp = [spherical |-> <<1, 0, 0>>, vec |-> <<0, 0, 0>>,
               euler |-> <<0, 0, 0, "XYZ">>]
    /\ transformTree = [p \in TfPairs |-> <<>>]
    /\ existingValue = Undefined
    /\ hooks = [c \in Components |-> NoComponent]
    /\ flushing = FALSE
    /\ panel = NoPanel
    /\ savedConfig = Undefined

\* --------------------------------------------------------------- actions
\* the host stores the playback time in the public field
SetCurrentTime(t) ==
    /\ Commit([Cur EXCEPT !.currentTime = Some(t)], "setCurrentTime", <<t>>)
    /\ UNCHANGED disposeCount

\* the host stores the two frame roots in the public fields
SetFrameIds(fixed, render) ==
    /\ Commit([Cur EXCEPT !.fixedFrameId = Some(fixed), !.renderFrameId = Some(render)],
              "setFrameIds", <<fixed, render>>)
    /\ UNCHANGED disposeCount

AddTransform(parent, child, time, value) ==
    /\ Commit(addTransform(Cur, parent, child, time, value), "addTransform",
              <<parent, child, time, value>>)
    /\ UNCHANGED disposeCount

AnimationFrame ==
    /\ Commit(animationFrame(Cur), "animationFrame", <<>>)
    /\ UNCHANGED disposeCount

FrameHandler(t) ==
    /\ Commit(frameHandler(Cur, t), "frameHandler", <<t>>)
    /\ UNCHANGED disposeCount

\* Input emits "resize": delivered to the listener the constructor registered
Resize ==
    /\ "resize" \in inputListeners
    /\ Commit(resizeHandler(Cur), "resizeHandler", <<>>)
    /\ UNCHANGED disposeCount

\* Input emits "click"; `cover` is the set of objects whose surface covers the
\* clicked pixel
Click(cover) ==
    /\ "click" \in inputListeners
    /\ Commit(clickHandler(Cur, cover), "clickHandler", <<cover>>)
    /\ UNCHANGED disposeCount

Pick(cover, shouldPickObject) ==
    /\ Commit(pick(Cur, cover, shouldPickObject), "pick", <<cover, shouldPickObject>>)
    /\ UNCHANGED disposeCount

PickObjectId(objId) ==
    /\ Commit(pickObjectId(Cur, objId), "pickObjectId", <<objId>>)
    /\ UNCHANGED disposeCount

SetColorScheme(scheme) ==
    /\ Commit(setColorScheme(Cur, scheme), "setColorScheme", <<scheme>>)
    /\ UNCHANGED disposeCount

SetCameraState(cameraState) ==
    /\ Commit(setCameraState(Cur, cameraState), "setCameraState", <<cameraState>>)
    /\ UNCHANGED disposeCount

\* the host sets a view offset on the public camera (tiled or multi-window
\* rendering), or clears it
SetViewOffset ==
    /\ cameraView # Some("host")
    /\ Commit([Cur EXCEPT !.cameraView = Some("host")], "camera.setViewOffset", <<>>)
    /\ UNCHANGED disposeCount

ClearViewOffset ==
    /\ cameraView # Undefined
    /\ Commit([Cur EXCEPT !.cameraView = Undefined], "camera.clearViewOffset", <<>>)
    /\ UNCHANGED disposeCount

\* a family adds a drawable object to the scene, or removes one
SceneAdd(i) ==
    /\ i \notin scene
    /\ Commit([Cur EXCEPT !.scene = @ \cup {i}], "scene.add", <<i>>)
    /\ UNCHANGED disposeCount

SceneRemove(i) ==
    /\ i \in scene
    /\ Commit([Cur EXCEPT !.scene = @ \ {i}], "scene.remove", <<i>>)
    /\ UNCHANGED disposeCount

\* a party subscribes to an event of the Renderer's emitter
On(ev) ==
    /\ ev \notin listeners
    /\ Commit([Cur EXCEPT !.listeners = @ \cup {ev}], "on", <<ev>>)
    /\ UNCHANGED disposeCount

Dispose ==
    /\ disposeCount < MaxDispose
    /\ Commit(dispose(Cur), "dispose", <<>>)
    /\ disposeCount' = disposeCount + 1

AddMarkerMessage(topic, marker) ==
    /\ Len(objects) < MaxObjects \/ getMarkerId(topic, marker.ns, marker.id) \in DOMAIN renderables
    /\ Commit(addMarkerMessage(Cur, topic, marker), "addMarkerMessage", <<topic, marker>>)
    /\ UNCHANGED disposeCount

\* a party constructs a RenderableMarker, updates one or disposes one itself
\* (the class and its methods are public)
Construct(topic, marker) ==
    /\ Len(objects) < MaxObjects
    /\ Commit(RenderableMarkerNew(Cur, topic, marker), "RenderableMarker", <<topic, marker>>)
    /\ UNCHANGED disposeCount

Update(o, marker) ==
    /\ o \in 1..Len(objects)
    /\ Commit(RenderableMarkerUpdate(Cur, o, marker), "RenderableMarker.update", <<o, marker>>)
    /\ UNCHANGED disposeCount

DisposeMarker(o) ==
    /\ o \in 1..Len(objects)
    /\ Commit(RenderableMarkerDispose(Cur, o), "RenderableMarker.dispose", <<o>>)
    /\ UNCHANGED disposeCount

\* ---------------------------------------------- actions of the state hook
CommitHook(g, op, arg, nowFlushing) ==
    /\ existingValue' = g.existingValue
    /\ hooks' = g.hooks
    /\ flushing' = (nowFlushing /\ PendingEffects(g.hooks) # {})
    /\ lastOp' = op
    /\ lastArg' = arg
    /\ log' = <<>>
    /\ UNCHANGED <<rendererVars, panelVars>>

\* React renders component c, for the first time or again with another value
\* of `enabled`; React has run the effects of earlier commits by then
Render(c, enabled) ==
    /\ ~flushing
    /\ c \notin PendingEffects(hooks)
    /\ hooks[c].mounted => hooks[c].enabled # enabled
    /\ CommitHook(useGlobalState(CurHook, c, enabled), "render", <<c, enabled>>, FALSE)

Unmount(c) ==
    /\ ~flushing
    /\ c \notin PendingEffects(hooks)
    /\ hooks[c].mounted
    /\ CommitHook(unmount(CurHook, c), "unmount", <<c>>, FALSE)

\* a mounted component calls the setter the hook returned
SetValue(c, newValue) ==
    /\ hooks[c].mounted
    /\ CommitHook(setValue(CurHook, newValue), "setValue", <<c, newValue>>, flushing)

\* React runs the effects of a commit: every cleanup first, then the effects
RunCleanup(c) ==
    /\ NeedsCleanup(hooks, c)
    /\ CommitHook(effectCleanup(CurHook, c), "effect.cleanup", <<c>>, TRUE)

RunEffect(c) ==
    /\ NeedsEffect(hooks, c)
    /\ \A d \in Components : ~NeedsCleanup(hooks, d)
    /\ CommitHook(effectCreate(CurHook, c), "effect", <<c>>, TRUE)

\* ---------------------------------------------------- actions of a panel
CommitPanel(p, config, op, arg) ==
    /\ panel' = p
    /\ savedConfig' = config
    /\ lastOp' = op
    /\ lastArg' = arg
    /\ log' = <<>>
    /\ UNCHANGED <<rendererVars, hookVars>>

\* React mounts a new instance of the panel: fresh state and ref, and the
\* layout effect runs with the commit
PanelMount ==
    /\ ~panel.mounted
    /\ CommitPanel(layoutEffect([NoPanel EXCEPT !.mounted = TRUE], savedConfig),
                   savedConfig, "mount", <<>>)

PanelUnmount ==
    /\ panel.mounted
    /\ CommitPanel(NoPanel, savedConfig, "unmount", <<>>)

\* the layout effect runs again (one of defaultConfig, saveConfig, savedConfig
\* changed)
LayoutEffect ==
    /\ panel.mounted
    /\ CommitPanel(layoutEffect(panel, savedConfig), savedConfig, "layoutEffect", <<>>)

\* the layout's config for the panel changes: a save arrives, the user edits
\* the settings, or the layout is replaced by one without a config
LayoutChange(config) ==
    /\ config # savedConfig
    /\ CommitPanel(panel, config, "layoutChange", <<config>>)

OverlayClick ==
    /\ panel.mounted
    /\ CommitPanel(onOverlayClick(panel, panel), savedConfig, "onOverlayClick", <<>>)

MouseMove(metaKey) ==
    /\ panel.mounted
    /\ CommitPanel(onMouseMove(panel, panel, metaKey), savedConfig, "onMouseMove", <<metaKey>>)

KeyDown(key) ==
    /\ panel.mounted
    /\ CommitPanel(keyDownHandlers(panel, panel, key), savedConfig, "keyDown", <<key>>)

KeyUp(key) ==
    /\ panel.mounted
    /\ CommitPanel(keyUpHandlers(panel, panel, key), savedConfig, "keyUp", <<key>>)

\* the toolbar's fullscreen entry, handed down through PanelContext
EnterFullscreen ==
    /\ panel.mounted
    /\ CommitPanel(enterFullscreen(panel), savedConfig, "enterFullscreen", <<>>)

\* the "Exit fullscreen" button, rendered while fullScreen
ExitFullScreen ==
    /\ panel.mounted
    /\ panel.fullScreen
    /\ CommitPanel(exitFullScreen(panel), savedConfig, "exitFullScreen", <<>>)

BlurDocument ==
    /\ panel.mounted
    /\ CommitPanel(onBlurDocument(panel, panel), savedConfig, "onBlurDocument", <<>>)

\* -------------------------------------------------------- specifications
\* The render cycle and the renderer's lifetime.
Next ==
    \/ \E t \in Times : SetCurrentTime(t)
    \/ AnimationFrame
    \/ \E t \in Times : FrameHandler(t)
    \/ Resize
    \/ \E cover \in SUBSET Items : Click(cover)
    \/ \E i \in Items : SceneAdd(i)
    \/ \E ev \in {"endFrame"} : On(ev)
    \/ Dispose

Spec == Init /\ [][Next]_vars

\* The marker registry under addMarkerMessage calls.
NextMarkers ==
    \E topic \in Topics, marker \in MarkerMessages : AddMarkerMessage(topic, marker)

SpecMarkers == Init /\ [][NextMarkers]_vars

\* The picker and the WebGL renderer's state.
NextPick ==
    \/ \E cover \in SUBSET Items, p \in Predicates : Pick(cover, p)
    \/ \E scheme \in {"dark", "light"} : SetColorScheme(scheme)
    \/ \E t \in {1} : FrameHandler(t)
    \/ \E i \in Items : SceneAdd(i)
    \/ \E i \in Items : SceneRemove(i)

SpecPick == Init /\ [][NextPick]_vars

\* The frame roots under the host's writes and the render cycle.
NextFrames ==
    \/ \E fixed \in FixedFrames, render \in RenderFrames : SetFrameIds(fixed, render)
    \/ \E t \in Times : SetCurrentTime(t)
    \/ \E t \in Times : FrameHandler(t)
    \/ AnimationFrame
    \/ Resize
    \/ \E i \in Items : SceneAdd(i)

SpecFrames == Init /\ [][NextFrames]_vars

\* The transform tree under addTransform calls.
NextTransforms ==
    \E pair \in TfPairs, time \in TfStamps, value \in TfValues :
        AddTransform(pair[1], pair[2], time, value)

SpecTransforms == Init /\ [][NextTransforms]_vars

\* The components that share one makeGlobalState hook.
NextHook ==
    \/ \E c \in Components, enabled \in BOOLEAN : Render(c, enabled)
    \/ \E c \in Components : Unmount(c)
    \/ \E c \in Components, newValue \in Values : SetValue(c, newValue)
    \/ \E c \in Components : RunCleanup(c)
    \/ \E c \in Components : RunEffect(c)

SpecHook == Init /\ [][NextHook]_vars

\* The pick pass over scenes that hold objects of every kind.
NextSkip ==
    \/ \E cover \in KindCovers, p \in KindPredicates : Pick(cover, p)
    \/ \E t \in {1} : FrameHandler(t)
    \/ \E i \in KindItems : SceneAdd(i)
    \/ \E i \in {1} : SceneRemove(i)

SpecSkip == Init /\ [][NextSkip]_vars

\* The identifier encoding of the pick pass.
NextCodec == \E objId \in ObjectIds : PickObjectId(objId)

SpecCodec == Init /\ [][NextCodec]_vars

\* The camera under the host's calls and the picker's.
NextCamera ==
    \/ \E cameraState \in CameraStates : SetCameraState(cameraState)
    \/ SetViewOffset
    \/ ClearViewOffset
    \/ \E cover \in {{}, Items} : Pick(cover, AlwaysPickObject)
    \/ \E t \in {1} : FrameHandler(t)
    \/ \E i \in {1} : SceneAdd(i)

SpecCamera == Init /\ [][NextCamera]_vars

\* RenderableMarker objects constructed, updated and disposed one by one.
NextRenderables ==
    \/ \E topic \in Topics, marker \in MarkerMessages : Construct(topic, marker)
    \/ \E o \in 1..MaxObjects, marker \in MarkerMessages : Update(o, marker)
    \/ \E o \in 1..MaxObjects : DisposeMarker(o)

SpecRenderables == Init /\ [][NextRenderables]_vars

\* One panel instance at a time under its events and its layout's changes.
NextPanel ==
    \/ PanelMount
    \/ PanelUnmount
    \/ LayoutEffect
    \/ \E config \in Configs : LayoutChange(config)
    \/ OverlayClick
    \/ \E metaKey \in BOOLEAN : MouseMove(metaKey)
    \/ \E key \in KeyDownKeys : KeyDown(key)
    \/ \E key \in KeyUpKeys : KeyUp(key)
    \/ EnterFullscreen
    \/ ExitFullScreen
    \/ BlurDocument

SpecPanel == Init /\ [][NextPanel]_vars

\* ======================================================================
\* Properties
\* ======================================================================
Steps(l, e) == {k \in 1..Len(l) : l[k].e = e}
\* the render cycle a step belongs to: the number of startFrame events up to it
CycleOf(l, k) == Cardinality({j \in 1..k : l[j].e = "startFrame"})
\* every step b is preceded, within its own render cycle, by a step a
Precedes(l, a, b) ==
    \A j \in Steps(l, b) : \E i \in Steps(l, a) : i < j /\ CycleOf(l, i) = CycleOf(l, j)
IsFrameEvent(x) == x.e \in {"startFrame", "endFrame"}
FrameEvents(l) == SelectSeq(l, IsFrameEvent)
NumCycles(l) == Cardinality(Steps(l, "startFrame"))
FamilySteps ==
    {"frameAxes.startFrame", "occupancyGrids.startFrame", "pointClouds.startFrame",
     "markers.startFrame"}

\* ---------------------------------------------------------------- C1
\* C1: an addMarkerMessage call whose (topic, namespace, id) key is already in
\* the registry updates that renderable in place (same object, new payload,
\* no object constructed) and leaves the registry's keys unchanged; a call
\* whose key is not in the registry increases the registry size by exactly one.
C1_AddMarkerCreatesOrUpdates ==
    [][lastOp' = "addMarkerMessage" =>
        LET topic == lastArg'[1]
            marker == lastArg'[2]
            key == getMarkerId(topic, marker.ns, marker.id)
        IN  IF key \in DOMAIN renderables
            THEN /\ DOMAIN renderables' = DOMAIN renderables
                 /\ renderables'[key] = renderables[key]
                 /\ Len(objects') = Len(objects)
                 /\ objects'[renderables[key]].marker = marker
            ELSE Cardinality(DOMAIN renderables') = Cardinality(DOMAIN renderables) + 1
      ]_vars

\* two renderables are registered and the last call updated the older one in place
C1_Witness ==
    /\ lastOp = "addMarkerMessage"
    /\ Len(objects) = 2
    /\ Cardinality(DOMAIN renderables) = 2
    /\ LET key == getMarkerId(lastArg[1], lastArg[2].ns, lastArg[2].id)
       IN  /\ key \in DOMAIN renderables
           /\ renderables[key] = 1
           /\ objects[1].marker = lastArg[2]
           /\ objects[1].marker.stamp = 2

\* ---------------------------------------------------------------- C2
\* C2: within every render cycle the material cache update and
\* FrameAxes.startFrame come before the startFrame of OccupancyGrids,
\* PointClouds and Markers, and every family's startFrame comes before the
\* draw call (gl.clear and composer.render); every cycle does draw.
C2_FrameStepOrder ==
    /\ \A a \in {"materialCache.update", "frameAxes.startFrame"} :
         \A b \in FamilySteps \ {"frameAxes.startFrame"} : Precedes(log, a, b)
    /\ \A f \in FamilySteps \cup {"materialCache.update"} :
         \A d \in {"gl.clear", "composer.render"} : Precedes(log, f, d)
    /\ Precedes(log, "gl.clear", "composer.render")
    /\ Cardinality(Steps(log, "composer.render")) = NumCycles(log)

\* a click that ran two render cycles
C2_Witness ==
    /\ lastOp = "clickHandler"
    /\ Cardinality(Steps(log, "composer.render")) = 2
    /\ Cardinality(Steps(log, "markers.startFrame")) = 2

\* ---------------------------------------------------------------- C3
\* C3: in the steps of every call, startFrame and endFrame events strictly
\* alternate starting with a startFrame, each endFrame carries the time of the
\* startFrame before it, every cycle is closed when the call returns (back in
\* Idle), the family refresh and the render pass lie between a startFrame and
\* its endFrame, and a frameHandler(t) call is exactly one such cycle at t
\* that begins with the startFrame event.
C3_FrameEventsAlternate ==
    LET ev == FrameEvents(log)
    IN  /\ Len(ev) % 2 = 0
        /\ \A k \in 1..Len(ev) :
             IF k % 2 = 1 THEN ev[k].e = "startFrame"
             ELSE ev[k].e = "endFrame" /\ ev[k].arg = ev[k - 1].arg
        /\ \A m \in FamilySteps \cup {"composer.render"} :
             /\ Precedes(log, "startFrame", m)
             /\ Precedes(log, m, "endFrame")
             /\ Cardinality(Steps(log, m)) = NumCycles(log)
        /\ lastOp = "frameHandler" =>
             /\ NumCycles(log) = 1
             /\ log[1] = Step("startFrame", lastArg)
             /\ ev[2] = Step("endFrame", lastArg)

\* a click that ran two complete cycles at time 2
C3_Witness ==
    /\ lastOp = "clickHandler"
    /\ Len(FrameEvents(log)) = 4
    /\ FrameEvents(log)[4] = Step("endFrame", Some(2))

\* ---------------------------------------------------------------- C4
\* C4 as claimed: every resizeHandler call runs exactly one render cycle.
C4_ResizeRendersExactlyOnce ==
    lastOp = "resizeHandler" =>
        /\ Cardinality(Steps(log, "startFrame")) = 1
        /\ Cardinality(Steps(log, "endFrame")) = 1

\* C4 as amended: a resizeHandler call runs exactly one render cycle when the
\* renderer's currentTime is set and none when it is undefined.
C4_ResizeRendersOnceIfTimeKnown ==
    lastOp = "resizeHandler" =>
        LET n == IF currentTime # Undefined THEN 1 ELSE 0
        IN  /\ Cardinality(Steps(log, "startFrame")) = n
            /\ Cardinality(Steps(log, "endFrame")) = n
            /\ Cardinality(Steps(log, "composer.render")) = n

C4_Witness ==
    /\ lastOp = "resizeHandler"
    /\ currentTime = Some(2)
    /\ FrameEvents(log) = <<Step("startFrame", Some(2)), Step("endFrame", Some(2))>>

\* ---------------------------------------------------------------- C5
\* C5: a render cycle forced by resizeHandler or clickHandler carries the time
\* of the most recent frameHandler call made before it (stated for a resize or
\* click that directly follows a frameHandler(t) call).
C5_ForcedCycleAtLastFrameTime ==
    [][(lastOp = "frameHandler" /\ lastOp' \in {"resizeHandler", "clickHandler"}) =>
        \A k \in 1..Len(log') : IsFrameEvent(log'[k]) => log'[k].arg = lastArg
      ]_vars

\* ---------------------------------------------------------------- C6
\* C6: when Renderer.dispose() has returned no GPU resource of the renderer
\* is outstanding: none is live and the picker holds no picking material.
C6_DisposeReleasesEveryResource ==
    lastOp = "dispose" =>
        /\ \A h \in GpuHandles : gpu[h] # "live"
        /\ pickMaterials = {}

\* ---------------------------------------------------------------- C7
\* C7: when Renderer.dispose() has returned no listener remains on the
\* Renderer's own emitter, and from the first dispose on Input carries neither
\* the 'resize' nor the 'click' listener, so no input event reaches
\* resizeHandler or clickHandler.
C7_DisposeDetachesListeners ==
    /\ lastOp = "dispose" => listeners = {}
    /\ disposeCount > 0 =>
         /\ inputListeners = {}
         /\ lastOp \notin {"resizeHandler", "clickHandler"}

\* dispose found a listener on the emitter and both Input listeners attached
C7_Witness ==
    /\ lastOp = "dispose"
    /\ log[1] = Step("removeAllListeners", Some({"endFrame"}))
    /\ log[3] = Step("input.dispose", Some({"resize", "click"}))
    /\ listeners = {}
    /\ inputListeners = {}

\* ---------------------------------------------------------------- C8
\* C8: after a second (or later) Renderer.dispose() call every GPU resource
\* the renderer allocated has been released, once: none is still live and none
\* is left in the picker's material cache to be released again.
C8_RepeatedDisposeReleasesEachOnce ==
    (disposeCount >= 2 /\ lastOp = "dispose") =>
        /\ \A h \in GpuHandles : gpu[h] \in {"none", "released"}
        /\ pickMaterials = {}

\* ---------------------------------------------------------------- C9
\* C9: after Renderer.dispose() a call to another Renderer method is rejected
\* as a usage error: it performs none of its steps.
C9_NoExecutionAfterDispose ==
    (disposeCount > 0 /\ lastOp \in {"frameHandler", "animationFrame", "resizeHandler",
                                      "clickHandler", "addMarkerMessage"})
        => log = <<>>

\* ---------------------------------------------------------------- C10
\* C10: Picker.pick leaves the WebGL renderer's current render target, clear
\* color and clear alpha as they were immediately before the call.
C10_PickRestoresGlState ==
    [][lastOp' = "pick" => gl' = gl]_vars

\* a pick that drew an object, made while the clear alpha was still 0
C10_Witness ==
    /\ lastOp = "pick"
    /\ DrawnItems(log) # {}
    /\ gpu["picker.pickingTarget"] = "live"
    /\ gl = [renderTarget |-> "null", clearColor |-> "0x000000", clearAlpha |-> 0]

\* ---------------------------------------------------------------- C11
\* C11: Picker.pick leaves the camera's view offset (and with it the derived
\* projection) exactly as it was before the call, whether or not a view offset
\* was active on the camera before the call.
C11_PickRestoresCameraView ==
    [][lastOp' = "pick" => cameraView' = cameraView]_vars

\* ---------------------------------------------------------------- C12
\* the step of the last call named e (its first, if there are several)
StepNamed(l, e) == l[CHOOSE k \in Steps(l, e) : \A j \in Steps(l, e) : k <= j]

\* C12: for every object id in 0..2^31-1, splitting the id into the bytes
\* (id>>24)&255, (id>>16)&255, (id>>8)&255, id&255 as processItem does and
\* decoding the bytes read back as R<<24 + G<<16 + B<<8 + A in 32-bit integer
\* arithmetic as pick does yields the same id, and that value is non-negative.
C12_DecodeInvertsEncode ==
    lastOp = "pickObjectId" =>
        LET objId == lastArg[1]
            bytes == StepNamed(log, "readRenderTargetPixels").arg[1]
            val == StepNamed(log, "pick.return").arg[1]
        IN  /\ bytes = <<(objId \div 16777216) % 256, (objId \div 65536) % 256,
                         (objId \div 256) % 256, objId % 256>>
            /\ val = objId
            /\ val >= 0

\* the largest id, 2^31 - 1, came back from the pixel <<127, 255, 255, 255>>
C12_Witness ==
    /\ lastOp = "pickObjectId"
    /\ lastArg[1] = 2147483647
    /\ StepNamed(log, "readRenderTargetPixels").arg[1] = <<127, 255, 255, 255>>
    /\ StepNamed(log, "pick.return").arg[1] = 2147483647

\* ---------------------------------------------------------------- C13
\* C13: when no pickable object covers the clicked pixel (empty background, an
\* empty scene with empty render lists, a pixel covered only by objects the
\* pick pass skips, or coordinates outside the canvas), pick returns the
\* background sentinel, the clear value decoded as a negative number, and
\* clickHandler then selects no object and starts no further render cycle.
C13_BackgroundSelectsNothing ==
    (lastOp = "clickHandler" /\ DrawnItems(log) \cap lastArg[1] = {}) =>
        LET ret == CHOOSE k \in Steps(log, "pick.return") : TRUE
        IN  /\ Cardinality(Steps(log, "pick.return")) = 1
            /\ log[ret - 1] = Step("readRenderTargetPixels", Some(<<255, 255, 255, 255>>))
            /\ log[ret].arg[1] < 0
            /\ \A j \in (ret + 1)..Len(log) : log[j].e # "startFrame"
            /\ ret = Len(log)
            /\ selectedObjects = {}

\* a click on a pixel that only a line covers, in a rendered scene that also
\* holds a pickable mesh: one render cycle, then the sentinel
C13_Witness ==
    /\ lastOp = "clickHandler"
    /\ lastArg[1] = {2}
    /\ renderLists = {1, 2}
    /\ DrawnItems(log) = {1}
    /\ NumCycles(log) = 1
    /\ log[Len(log)] = Step("pick.return", Some(-1))
    /\ selectedObjects = {}

\* ---------------------------------------------------------------- C14
\* C14: the pick pass never draws, and pick never returns the id of, an object
\* without geometry, an object whose material type is LineBasicMaterial or
\* LineMaterial, or an object the predicate of the current call rejects; what
\* is drawn depends on the predicate of the current call alone, so a pick made
\* with the default predicate draws every other object of the render lists
\* whatever predicate an earlier call was given.
C14_PickSkipsUnpickable ==
    [][lastOp' = "pick" =>
        LET shouldPickObject == lastArg'[2]
            pickable == {i \in renderLists :
                            /\ ItemHasGeometry(i)
                            /\ ItemMaterialType(i) \notin {"LineBasicMaterial", "LineMaterial"}
                            /\ i \in shouldPickObject}
            val == StepNamed(log', "pick.return").arg[1]
        IN  /\ DrawnItems(log') = pickable
            /\ val >= 0 => val \in pickable
      ]_vars

\* all five kinds were rendered and cover the pixel, the predicate rejects the
\* nearest mesh: of the five only the other mesh is drawn, and it is returned
C14_Witness ==
    /\ lastOp = "pick"
    /\ renderLists = KindItems
    /\ lastArg = <<KindItems, Objects \ {1}>>
    /\ DrawnItems(log) = {3}
    /\ StepNamed(log, "pick.return").arg[1] = 3

\* ---------------------------------------------------------------- C15
\* C15: pick never renders or re-traverses the main scene: it renders the
\* picker's empty scene once and replays the render lists left by the most
\* recent main-scene render, opaque then transmissive then transparent, so the
\* candidates, and the result, come from those lists and not from the scene
\* as it is now, and the lists are left as they were.
C15_PickReplaysRenderLists ==
    [][lastOp' = "pick" =>
        LET val == StepNamed(log', "pick.return").arg[1]
            drawn == SelectSeq(log', LAMBDA x : x.e = "renderBufferDirect")
        IN  /\ Cardinality(Steps(log', "pick.render")) = 1
            /\ Steps(log', "composer.render") = {}
            /\ DrawnItems(log') \subseteq renderLists
            /\ (lastArg'[2] = AlwaysPickObject /\ val >= 0) =>
                    /\ val \in renderLists \cap lastArg'[1]
                    /\ \A i \in renderLists \cap lastArg'[1] :
                          (ItemHasGeometry(i) /\ ItemMaterialType(i) \notin
                              {"LineBasicMaterial", "LineMaterial"}) => val <= i
            /\ \A j, k \in 1..Len(drawn) :
                  (ItemList(drawn[j].arg[1]) = "opaque"
                     /\ ItemList(drawn[k].arg[1]) = "transparent") => j < k
            /\ renderLists' = renderLists
            /\ scene' = scene
      ]_vars

\* a pick made after the rendered mesh was removed from the scene and another
\* object was added: the removed mesh is drawn and returned, the new one is not
C15_Witness ==
    /\ lastOp = "pick"
    /\ renderLists = {1, 3}
    /\ scene = {2, 3}
    /\ lastArg = <<KindItems, AlwaysPickObject>>
    /\ DrawnItems(log) = {1, 3}
    /\ StepNamed(log, "pick.return").arg[1] = 1

\* ---------------------------------------------------------------- C16
\* the camera pose a descriptor stands for, in closed form
PoseOf(cs) ==
    [position |->
        <<cs.distance * Sin(cs.phi) * Sin(-cs.thetaOffset) + cs.targetOffset[1],
          cs.targetOffset[2] - cs.distance * Sin(cs.phi) * Cos(-cs.thetaOffset),
          cs.distance * Cos(cs.phi) + cs.targetOffset[3]>>,
     quaternion |->
        [order |-> "ZYX", x |-> cs.phi, y |-> 0, z |-> Mod360(-cs.thetaOffset)]]

\* C16: the camera position and orientation after setCameraState(s) are a
\* function of s alone, whatever the camera state before the call and whatever
\* calls came earlier, and a second setCameraState(s) leaves the camera as the
\* first did.
C16_SetCameraStatePure ==
    [][lastOp' = "setCameraState" =>
        /\ camera' = PoseOf(lastArg'[1])
        /\ (lastOp = "setCameraState" /\ lastArg = lastArg') => camera' = camera
      ]_vars

\* a setCameraState that followed a different setCameraState and moved the
\* camera off the target offset
C16_Witness ==
    /\ lastOp = "setCameraState"
    /\ lastArg[1] = [distance |-> 2, phi |-> 90, thetaOffset |-> 270,
                     targetOffset |-> <<1, 2, 0>>]
    /\ camera.position = <<3, 2, 0>>
    /\ temp.vec = <<1, 2, 0>>

\* ---------------------------------------------------------------- C17
\* C17: the fixed frame and the render frame of a render cycle are the roots
\* the caller supplied: when the caller has set fixedFrameId and renderFrameId
\* and then calls frameHandler, those values are in effect when the families'
\* startFrame runs and after the call (frameHandler assigns the fields, if at
\* all, before the first family's startFrame and nothing assigns them later).
C17_FramesAreCallerSupplied ==
    [][(lastOp = "setFrameIds" /\ lastOp' = "frameHandler") =>
        /\ Steps(log', "frameAxes.startFrame") # {}
        /\ fixedFrameId' = Some(lastArg[1])
        /\ renderFrameId' = Some(lastArg[2])
      ]_vars

\* ---------------------------------------------------------------- C18
\* C18: in the transform tree the renderer creates (retention window 60
\* seconds), after every addTransform call the samples of each (parent, child)
\* pair are in non-decreasing timestamp order and none is older than the
\* newest sample of that same pair minus 60 seconds; eviction is per pair: the
\* call leaves the samples of every other pair as they were, and keeps every
\* sample of its own pair that is within the window of that pair's newest.
C18_TransformsOrderedAndWindowed ==
    [][lastOp' = "addTransform" =>
        LET pair == <<lastArg'[1], lastArg'[2]>>
            time == lastArg'[3]
            old == transformTree[pair]
            new == transformTree'[pair]
            StampsOf(q) == {q[k].time : k \in 1..Len(q)}
        IN  /\ \A p \in TfPairs :
                 LET q == transformTree'[p]
                 IN  /\ \A k \in 1..(Len(q) - 1) : q[k].time <= q[k + 1].time
                     /\ \A k \in 1..Len(q) : q[k].time >= q[Len(q)].time - 60
            /\ \A p \in TfPairs \ {pair} : transformTree'[p] = transformTree[p]
            /\ lastArg'[4] = "NaN" => new = old
            /\ lastArg'[4] # "NaN" =>
                 LET newest == IF old # <<>> /\ SeqMax(old) > time THEN SeqMax(old) ELSE time
                 IN  StampsOf(new) = {t \in StampsOf(old) \cup {time} : t >= newest - 60}
      ]_vars

\* one pair holds samples 60 seconds apart and newer than the other pair's
\* only sample by more than the window: that sample is still there
C18_Witness ==
    /\ lastOp = "addTransform"
    /\ lastArg = <<"map", "base_link", 122, "pose">>
    /\ transformTree[<<"map", "base_link">>] =
            <<[time |-> 62, value |-> "pose"], [time |-> 122, value |-> "pose"]>>
    /\ transformTree[<<"base_link", "sensor">>] = <<[time |-> 0, value |-> "pose"]>>

\* ---------------------------------------------------------------- C19
\* C19: whenever no effect is pending (every change event is delivered as it
\* is emitted), the local value of every mounted component that uses the hook
\* with enabled = true equals the shared value.
C19_EnabledComponentsSeeSharedValue ==
    (~flushing /\ PendingEffects(hooks) = {}) =>
        \A c \in Components :
            (hooks[c].mounted /\ hooks[c].enabled) => hooks[c].localValue = existingValue

C21_UnmountClearsSharedValue ==
    [][/\ (lastOp' = "effect.cleanup" /\ ~hooks[lastArg'[1]].mounted) =>
            /\ existingValue' = Undefined
            /\ hooks'[lastArg'[1]] = NoComponent
       /\ existingValue' # existingValue =>
            \/ lastOp' = "setValue" /\ existingValue' = lastArg'[2]
            \/ lastOp' = "effect.cleanup" /\ existingValue' = Undefined
       /\ \A d \in Components :
            (~hooks[d].mounted /\ hooks'[d].mounted) =>
                hooks'[d].localValue \in {Undefined, existingValue}
       /\ \A c \in Components :
            (hooks[c] = NoComponent /\ ~hooks'[c].mounted) => hooks'[c] = NoComponent
      ]_vars

\* A's cleanup has run after its unmount and cleared the 1 that was set: B,
\* which is mounted and subscribed, was handed undefined by the clearing
\* change event, and A is no listener any more
C21_Witness ==
    /\ lastOp = "effect.cleanup"
    /\ lastArg = <<"A">>
    /\ hooks["A"] = NoComponent
    /\ existingValue = Undefined
    /\ hooks["B"] = [mounted |-> TRUE, enabled |-> TRUE, localValue |-> Undefined,
                     listening |-> TRUE, effect |-> "on"]

\* ---------------------------------------------------------------- C22
\* C22: in every clickHandler call the pick is preceded, within that call, by
\* a completed main render cycle (startFrame, composer.render, endFrame) made
\* with the outline selection empty, so that the pick reads the render lists
\* that render of the same call produced.
C22_ClickRendersBeforePick ==
    lastOp = "clickHandler" =>
        \A j \in Steps(log, "pick.render") :
            /\ \E i \in Steps(log, "composer.render") : i < j
            /\ \E i \in Steps(log, "endFrame") : i < j

\* ---------------------------------------------------------------- C23
\* C23: a mounted panel instance calls saveConfig(defaultConfig) at most
\* once, and a step in which it calls it starts from no saved config; this
\* holds however often the layout effect runs again and however the saved
\* config changes in between.
C23_DefaultConfigSavedOnce ==
    [][/\ panel'.defaultSaves <= 1
       /\ (panel'.mounted /\ panel'.defaultSaves > (IF panel.mounted THEN panel.defaultSaves ELSE 0))
            => savedConfig = Undefined
      ]_vars

\* the layout effect has run again for an instance that saved the default
\* config once and whose layout has since lost its config: no second save
C23_Witness ==
    /\ lastOp = "layoutEffect"
    /\ panel.mounted
    /\ panel.savedDefaultConfig
    /\ panel.defaultSaves = 1
    /\ savedConfig = Undefined

\* ---------------------------------------------------------------- C24
\* C24: after onBlurDocument the panel is not in fullscreen and no key is
\* taken as held: fullScreen, fullScreenLocked, quickActionsKeyPressed,
\* shiftKeyPressed and cmdKeyPressed are all false, whatever they were before.
C24_BlurLeavesFullscreen ==
    lastOp = "onBlurDocument" =>
        /\ ~panel.fullScreen
        /\ ~panel.fullScreenLocked
        /\ ~panel.quickActionsKeyPressed
        /\ ~panel.shiftKeyPressed
        /\ ~panel.cmdKeyPressed

\* the window lost focus: the panel instance is mounted, out of fullscreen and
\* takes no key as held
C24_Witness ==
    /\ lastOp = "onBlurDocument"
    /\ panel.mounted
    /\ panel = [NoPanel EXCEPT !.mounted = TRUE, !.savedDefaultConfig = TRUE,
                               !.defaultSaves = 1]
    /\ savedConfig = Some("userConfig")

\* ---------------------------------------------------------------- C25
\* C25: in every state fullScreenLocked implies fullScreen, and a release of
\* the quick-actions key made in fullscreen leaves fullscreen exactly when
\* fullscreen is not locked (and never enters it).
C25_LockedImpliesFullscreen ==
    [][/\ panel'.fullScreenLocked => panel'.fullScreen
       /\ (lastOp' = "keyUp" /\ lastArg'[1] \in {"Backquote", "Tilde"}) =>
            /\ panel'.fullScreen = (panel.fullScreen /\ panel.fullScreenLocked)
            /\ panel'.fullScreenLocked = panel.fullScreenLocked
            /\ ~panel'.quickActionsKeyPressed
      ]_vars

\* the quick-actions key was released in fullscreen locked by a shift-click:
\* the panel is still in fullscreen, with shift still held
C25_Witness ==
    /\ lastOp = "keyUp"
    /\ lastArg = <<"Backquote">>
    /\ panel.fullScreen
    /\ panel.fullScreenLocked
    /\ panel.shiftKeyPressed
    /\ ~panel.quickActionsKeyPressed

\* ---------------------------------------------------------------- C26
\* C26: r.dispose() removes from the registry only the entry that refers to
\* r: every other RenderableMarker that was registered under its name before
\* the call is registered under its name after it.
C26_DisposeRemovesOnlyOwnEntry ==
    [][lastOp' = "RenderableMarker.dispose" =>
        \A o \in (1..Len(objects)) \ {lastArg'[1]} :
            (/\ objects[o].name \in DOMAIN renderables
             /\ renderables[objects[o].name] = o)
                => /\ objects[o].name \in DOMAIN renderables'
                   /\ renderables'[objects[o].name] = o
      ]_vars

\* ---------------------------------------------------------------- C27
\* C27: every registry entry's key is the renderable's name, and the name is
\* the marker id of the renderable's topic and of the namespace and id of its
\* current marker payload.
C27_RegistryKeyMatchesPayload ==
    \A name \in DOMAIN renderables :
        LET obj == objects[renderables[name]]
        IN  /\ obj.name = name
            /\ name = getMarkerId(obj.topic, obj.marker.ns, obj.marker.id)

====
